---- MODULE Spec2Model ----
(***************************************************************************)
(* Optional-capability activation of the addon-controller bootstrap        *)
(* (cmd/main.go): the main goroutine, the two capability pipelines          *)
(* capiWatchers and fluxWatchers it starts, the CRD handlers that restart   *)
(* the process, and the signal handler behind the root context.             *)
(***************************************************************************)
EXTENDS Integers, FiniteSets, Sequences, TLC

VARIABLES
    shardKey,     \* "" or a shard key: the --shard-key flag (main.go:67, 141)
    flaky,        \* environment: the capability whose CRD reads can fail transiently
    mainPc,       \* position of the main goroutine (main.go:174-183)
    proc,         \* "running", "exited" (os.Exit / main returned), "panicked"
    ctx,          \* root context of ctrl.SetupSignalHandler: "active"/"cancelled"
    sigPending,   \* SIGTERMs sent to the process, not yet seen by the signal handler
    extSent,      \* SIGTERMs sent by the supervisor/operator (environment)
    pc,           \* per pipeline: position in capiWatchers / fluxWatchers
    retries,      \* per pipeline: the local variable retries
    watcher,      \* per pipeline: crd.WatchCustomResourceDefinition goroutine
    sent,         \* per pipeline: SIGTERMs its handler has sent
    firstProbe,   \* history: result of the first probe of the pipeline
    nProbes,      \* history: probes made (saturating)
    nWatch,       \* history: times the CRD watcher was started (saturating)
    nAttach,      \* history: attach calls per controller (saturating)
    lastAttach,   \* history: result of the most recent attach call
    attachErr,    \* history: number of attach calls that returned an error
    lastProbe,    \* history: the most recent probe: API response, result, API calls
    attached,     \* history: controllers on which an attach call returned success
    mismatched,   \* history: the handler has been given an event of a foreign group
    lastKill,     \* history: group of the event behind the handler's latest SIGTERM
    killFailed    \* history: a syscall.Kill of a handler returned an error

vars == <<shardKey, flaky, mainPc, proc, ctx, sigPending, extSent, pc, retries, watcher,
          sent, firstProbe, nProbes, nWatch, nAttach, lastAttach, attachErr,
          lastProbe, attached, mismatched, lastKill, killFailed>>

(***************************************************************************)
(* Constants of the program and bounds of the model                        *)
(***************************************************************************)
\* const maxRetries = 20 (capiWatchers and fluxWatchers)
maxRetries == 20

\* retries is only ever compared with maxRetries: the values from maxRetries on
\* behave alike and are folded into maxRetries and maxRetries + 1, which
\* alternate so that every retries++ remains a step.
RetriesCap == maxRetries + 1
\* attach calls (WatchForCAPI / WatchForFlux) that return an error, per pipeline
MaxAttachErrors == 1
\* CRD events of its own group delivered to one handler
MaxEvents == 2
\* ctrl.SetupSignalHandler: c := make(chan os.Signal, 2); signals that arrive
\* while the channel is full are dropped
SigChanCap == 2
\* termination signals sent to the process from outside
MaxExtSignals == 1
\* history counters count 0, 1, ..., SatCap-or-more
SatCap == 2

Caps == {"capi", "flux"}
Controllers == {"clusterProfile", "profile", "clusterSummary"}
AttachPcs == {"attachCP", "attachP", "attachCS"}
ApiResponses == {"ok", "notFound", "error"}

\* clusterv1.GroupVersion.Group and sourcev1.GroupVersion.Group
capiGroup == "cluster.x-k8s.io"
fluxGroup == "source.toolkit.fluxcd.io"
Groups == {capiGroup, fluxGroup, "apps"}

Sat(n) == IF n + 1 > SatCap THEN SatCap ELSE n + 1

\* a SIGTERM reaches the process: queued for the signal handler goroutine
Signal(n) == IF n + 1 > SigChanCap THEN SigChanCap ELSE n + 1

Alive == proc = "running"

\* no probe made yet
NoProbe == [resp |-> "none", present |-> FALSE, err |-> FALSE, calls |-> 0]

\* the process ends (os.Exit, main returns, panic): its goroutines are gone
Halt(how) ==
    /\ proc' = how
    /\ mainPc' = "exited"
    /\ ctx' = "cancelled"
    /\ sigPending' = 0
    /\ extSent' = 0
    /\ pc' = [c \in Caps |-> "gone"]
    /\ retries' = [c \in Caps |-> 0]
    /\ watcher' = [c \in Caps |-> "none"]
    /\ sent' = [c \in Caps |-> 0]
    /\ firstProbe' = [c \in Caps |-> "none"]
    /\ nProbes' = [c \in Caps |-> 0]
    /\ nWatch' = [c \in Caps |-> 0]
    /\ nAttach' = [c \in Caps |-> [k \in Controllers |-> 0]]
    /\ lastAttach' = [c \in Caps |-> "none"]
    /\ attachErr' = [c \in Caps |-> 0]
    /\ lastProbe' = [c \in Caps |-> NoProbe]
    /\ attached' = [c \in Caps |-> {}]
    /\ mismatched' = [c \in Caps |-> FALSE]
    /\ lastKill' = [c \in Caps |-> "none"]
    /\ UNCHANGED <<shardKey, flaky>>

(***************************************************************************)
(* Presence prober: one read of the signaling CRD, classified.             *)
(***************************************************************************)
\* calls is the number of c.Get calls the invocation makes
\* variant: a NotFound answer is reported as an error
isCAPIInstalled_NotFoundIsError(resp) ==
    IF resp = "ok" THEN [present |-> TRUE, err |-> FALSE, calls |-> 1]
    ELSE [present |-> FALSE, err |-> TRUE, calls |-> 1]

isCAPIInstalled(resp) ==
    IF resp = "ok" THEN [present |-> TRUE, err |-> FALSE, calls |-> 1]
    ELSE IF resp = "notFound" THEN [present |-> FALSE, err |-> FALSE, calls |-> 1]
    ELSE [present |-> FALSE, err |-> TRUE, calls |-> 1]

isFluxInstalled(resp) ==
    IF resp = "ok" THEN [present |-> TRUE, err |-> FALSE, calls |-> 1]
    ELSE IF resp = "notFound" THEN [present |-> FALSE, err |-> FALSE, calls |-> 1]
    ELSE [present |-> FALSE, err |-> TRUE, calls |-> 1]

isInstalled(c, resp) ==
    IF c = "capi" THEN isCAPIInstalled(resp) ELSE isFluxInstalled(resp)

ProbeResult(r) ==
    IF r.err THEN "Error" ELSE IF r.present THEN "Present" ELSE "Absent"

(***************************************************************************)
(* Initial state: flags parsed, manager and controllers built, the signal  *)
(* handler installed (main.go:88-172); startWatchers not yet called.        *)
(***************************************************************************)
Init ==
    /\ shardKey \in {"", "shard1"}
    /\ flaky \in Caps
    /\ mainPc = "startWatchers"
    /\ proc = "running"
    /\ ctx = "active"
    /\ sigPending = 0
    /\ extSent = 0
    /\ pc = [c \in Caps |-> "idle"]
    /\ retries = [c \in Caps |-> 0]
    /\ watcher = [c \in Caps |-> "none"]
    /\ sent = [c \in Caps |-> 0]
    /\ firstProbe = [c \in Caps |-> "none"]
    /\ nProbes = [c \in Caps |-> 0]
    /\ nWatch = [c \in Caps |-> 0]
    /\ nAttach = [c \in Caps |-> [k \in Controllers |-> 0]]
    /\ lastAttach = [c \in Caps |-> "none"]
    /\ attachErr = [c \in Caps |-> 0]
    /\ lastProbe = [c \in Caps |-> NoProbe]
    /\ attached = [c \in Caps |-> {}]
    /\ mismatched = [c \in Caps |-> FALSE]
    /\ lastKill = [c \in Caps |-> "none"]
    /\ killFailed = FALSE

(***************************************************************************)
(* Main goroutine                                                          *)
(***************************************************************************)
\* startWatchers: go capiWatchers(...)
GoCapiWatchers ==
    /\ Alive
    /\ mainPc = "startWatchers"
    /\ pc["capi"] = "idle"
    /\ pc' = [pc EXCEPT !["capi"] = "probe"]
    /\ mainPc' = "goFlux"
    /\ UNCHANGED <<shardKey, flaky, proc, ctx, sigPending, extSent, retries, watcher,
                   sent, firstProbe, nProbes, nWatch, nAttach, lastAttach, attachErr, lastProbe,
                   attached, mismatched, lastKill, killFailed>>


\* variant: capiWatchers is called without "go": startWatchers goes on only
\* after the CAPI pipeline has returned
GoFluxWatchers_Synchronous ==
    /\ pc["capi"] = "returned"
    /\ Alive
    /\ mainPc = "goFlux"
    /\ pc["flux"] = "idle"
    /\ pc' = [pc EXCEPT !["flux"] = "probe"]
    /\ mainPc' = "mgrStart"
    /\ UNCHANGED <<shardKey, flaky, proc, ctx, sigPending, extSent, retries, watcher,
                   sent, firstProbe, nProbes, nWatch, nAttach, lastAttach, attachErr, lastProbe,
                   attached, mismatched, lastKill, killFailed>>

\* startWatchers: go fluxWatchers(...), then return to main
GoFluxWatchers ==
    /\ Alive
    /\ mainPc = "goFlux"
    /\ pc["flux"] = "idle"
    /\ pc' = [pc EXCEPT !["flux"] = "probe"]
    /\ mainPc' = "mgrStart"
    /\ UNCHANGED <<shardKey, flaky, proc, ctx, sigPending, extSent, retries, watcher,
                   sent, firstProbe, nProbes, nWatch, nAttach, lastAttach, attachErr, lastProbe,
                   attached, mismatched, lastKill, killFailed>>

\* variant: mgr.Start is entered before startWatchers has started fluxWatchers
MgrStart_BeforeWatchers ==
    /\ Alive
    /\ mainPc \in {"goFlux", "mgrStart"}
    /\ mainPc' = "serving"
    /\ UNCHANGED <<shardKey, flaky, proc, ctx, sigPending, extSent, pc, retries, watcher,
                   sent, firstProbe, nProbes, nWatch, nAttach, lastAttach, attachErr, lastProbe,
                   attached, mismatched, lastKill, killFailed>>

\* main: mgr.Start(ctx) is entered; the manager begins serving
MgrStart ==
    /\ Alive
    /\ mainPc = "mgrStart"
    /\ mainPc' = "serving"
    /\ UNCHANGED <<shardKey, flaky, proc, ctx, sigPending, extSent, pc, retries, watcher,
                   sent, firstProbe, nProbes, nWatch, nAttach, lastAttach, attachErr, lastProbe,
                   attached, mismatched, lastKill, killFailed>>

\* main: mgr.Start returns nil once ctx is cancelled; main returns
MgrStartReturns ==
    /\ Alive
    /\ mainPc = "serving"
    /\ ctx = "cancelled"
    /\ Halt("exited")
    /\ UNCHANGED killFailed

\* main: mgr.Start returns an error ("problem running manager"); os.Exit(1)
MgrStartFails ==
    /\ Alive
    /\ mainPc = "serving"
    /\ Halt("exited")
    /\ UNCHANGED killFailed

\* the steps main takes by itself
MainStep == GoCapiWatchers \/ GoFluxWatchers \/ MgrStart \/ MgrStartReturns

(***************************************************************************)
(* Root context: ctrl.SetupSignalHandler. The first SIGTERM cancels ctx,   *)
(* the second one exits the process with code 1.                           *)
(***************************************************************************)
ExternalSignal ==
    /\ Alive
    /\ extSent < MaxExtSignals
    /\ extSent' = extSent + 1
    /\ sigPending' = Signal(sigPending)
    /\ UNCHANGED <<shardKey, flaky, mainPc, proc, ctx, pc, retries, watcher,
                   sent, firstProbe, nProbes, nWatch, nAttach, lastAttach, attachErr, lastProbe,
                   attached, mismatched, lastKill, killFailed>>

SignalHandler ==
    /\ Alive
    /\ sigPending > 0
    /\ IF ctx = "active"
         THEN /\ ctx' = "cancelled"
              /\ sigPending' = sigPending - 1
              /\ UNCHANGED <<shardKey, flaky, mainPc, proc, extSent, pc, retries, watcher,
                             sent, firstProbe, nProbes, nWatch, nAttach,
                             lastAttach, attachErr, lastProbe,
                             attached, mismatched, lastKill, killFailed>>
         ELSE Halt("exited") /\ UNCHANGED killFailed

(***************************************************************************)
(* Capability pipelines: capiWatchers and fluxWatchers                     *)
(***************************************************************************)
IncRetries(n) == IF n >= RetriesCap THEN maxRetries ELSE n + 1

\* the controller an attach position registers the event source on
Ctrl(p) ==
    IF p = "attachCP" THEN "clusterProfile"
    ELSE IF p = "attachP" THEN "profile"
    ELSE "clusterSummary"

\* clusterProfileReconciler and profileReconciler are nil when shardKey is set
FirstAttach(c) ==
    IF c = "capi" /\ shardKey = "" THEN "attachCP" ELSE "attachCS"

\* variant: the return after the last attach is missing, the loop goes on
AfterAttach_NoReturn(c, p, ok) ==
    IF ~ok THEN "probe"
    ELSE IF c = "capi" /\ p = "attachCP" THEN "attachP"
    ELSE IF c = "capi" /\ p = "attachP" THEN "attachCS"
    ELSE "probe"

\* variant: a failed attach ends the pipeline instead of continuing the loop
AfterAttach_GiveUp(c, p, ok) ==
    IF ~ok THEN "returned"
    ELSE IF c = "capi" /\ p = "attachCP" THEN "attachP"
    ELSE IF c = "capi" /\ p = "attachP" THEN "attachCS"
    ELSE "returned"

\* where the pipeline goes after an attach call at position p returned
AfterAttach(c, p, ok) ==
    IF ~ok THEN "probe"                                  \* continue
    ELSE IF c = "capi" /\ p = "attachCP" THEN "attachP"
    ELSE IF c = "capi" /\ p = "attachP" THEN "attachCS"
    ELSE "returned"                                      \* return

\* variant: the else is missing, a failed probe falls through to the attach calls
ProbeError_FallsThrough(c) ==
    /\ pc' = [pc EXCEPT ![c] = FirstAttach(c)]
    /\ retries' = [retries EXCEPT ![c] = IncRetries(retries[c])]
    /\ UNCHANGED <<watcher, nWatch>>

\* err != nil: sleep one second while retries < maxRetries, then retries++
ProbeError(c) ==
    /\ IF retries[c] < maxRetries
         THEN pc' = [pc EXCEPT ![c] = "sleep"] /\ UNCHANGED retries
         ELSE retries' = [retries EXCEPT ![c] = IncRetries(retries[c])] /\ UNCHANGED pc
    /\ UNCHANGED <<watcher, nWatch>>

\* variant: the watcher is started but the return is missing
ProbeAbsent_NoReturn(c) ==
    /\ watcher' = [watcher EXCEPT ![c] = "running"]
    /\ nWatch' = [nWatch EXCEPT ![c] = Sat(nWatch[c])]
    /\ UNCHANGED <<pc, retries>>

\* !present: go crd.WatchCustomResourceDefinition(ctx, ..., handler, ...); return
ProbeAbsent(c) ==
    /\ watcher' = [watcher EXCEPT ![c] = "running"]
    /\ nWatch' = [nWatch EXCEPT ![c] = Sat(nWatch[c])]
    /\ pc' = [pc EXCEPT ![c] = "returned"]
    /\ retries' = [retries EXCEPT ![c] = 0]

\* variant: a Present answer that follows failed probes is taken as Absent
ProbePresent_Downgrade(c) ==
    IF retries[c] > 0
      THEN ProbeAbsent(c)
      ELSE /\ pc' = [pc EXCEPT ![c] = FirstAttach(c)]
           /\ UNCHANGED <<retries, watcher, nWatch>>

\* present: go on to the attach calls
ProbePresent(c) ==
    /\ pc' = [pc EXCEPT ![c] = FirstAttach(c)]
    /\ UNCHANGED <<retries, watcher, nWatch>>

\* one iteration of the loop up to the probe's result
Probe(c) ==
    /\ Alive
    /\ pc[c] = "probe"
    /\ \E resp \in ApiResponses :
          LET r == isInstalled(c, resp) IN
          /\ (resp = "error" => c = flaky)
          /\ firstProbe' = [firstProbe EXCEPT ![c] =
                               IF firstProbe[c] = "none" THEN ProbeResult(r) ELSE @]
          /\ nProbes' = [nProbes EXCEPT ![c] = Sat(nProbes[c])]
          /\ lastProbe' = [lastProbe EXCEPT ![c] =
                              [resp |-> resp, present |-> r.present,
                               err |-> r.err, calls |-> r.calls]]
          /\ IF r.err THEN ProbeError(c)
             ELSE IF ~r.present THEN ProbeAbsent(c)
             ELSE ProbePresent(c)
    /\ UNCHANGED <<shardKey, flaky, mainPc, proc, ctx, sigPending, extSent, sent,
                   nAttach, lastAttach, attachErr,
                   attached, mismatched, lastKill, killFailed>>

\* time.Sleep(time.Second) returns; retries++
Sleep(c) ==
    /\ Alive
    /\ pc[c] = "sleep"
    /\ retries' = [retries EXCEPT ![c] = IncRetries(retries[c])]
    /\ pc' = [pc EXCEPT ![c] = "probe"]
    /\ UNCHANGED <<shardKey, flaky, mainPc, proc, ctx, sigPending, extSent, watcher, sent,
                   firstProbe, nProbes, nWatch, nAttach, lastAttach, attachErr, lastProbe,
                   attached, mismatched, lastKill, killFailed>>

\* WatchForCAPI / WatchForFlux on the controller of the current position
Attach(c) ==
    /\ Alive
    /\ pc[c] \in AttachPcs
    /\ \E ok \in BOOLEAN :
          /\ (~ok => attachErr[c] < MaxAttachErrors)
          /\ nAttach' = [nAttach EXCEPT ![c][Ctrl(pc[c])] = Sat(@)]
          /\ lastAttach' = [lastAttach EXCEPT ![c] = IF ok THEN "ok" ELSE "err"]
          /\ attachErr' = [attachErr EXCEPT ![c] = IF ok THEN @ ELSE @ + 1]
          /\ attached' = [attached EXCEPT ![c] =
                             IF ok THEN @ \cup {Ctrl(pc[c])} ELSE @]
          /\ pc' = [pc EXCEPT ![c] = AfterAttach(c, pc[c], ok)]
          /\ retries' = [retries EXCEPT ![c] =
                            IF AfterAttach(c, pc[c], ok) = "returned" THEN 0 ELSE @]
    /\ UNCHANGED <<shardKey, flaky, mainPc, proc, ctx, sigPending, extSent, watcher, sent,
                   firstProbe, nProbes, nWatch, lastProbe, mismatched, lastKill,
                   killFailed>>

PipelineStep(c) == Probe(c) \/ Sleep(c) \/ Attach(c)

(***************************************************************************)
(* CRD install watcher and the restart handlers                            *)
(***************************************************************************)
\* variant: the handler matches every group
capiCRDHandler_AnyGroup(g) == TRUE

\* capiCRDHandler: gvk.Group == clusterv1.GroupVersion.Group
capiCRDHandler(g) == g = capiGroup

\* fluxCRDHandler: gvk.Group == sourcev1.GroupVersion.Group
fluxCRDHandler(g) == g = fluxGroup

HandlerKills(c, g) == IF c = "capi" THEN capiCRDHandler(g) ELSE fluxCRDHandler(g)

\* variant: a failed kill is logged and the handler returns
KillError_Ignored(c) ==
    UNCHANGED <<shardKey, flaky, mainPc, proc, ctx, sigPending, extSent, pc, retries,
                watcher, sent, firstProbe, nProbes, nWatch, nAttach, lastAttach,
                attachErr, lastProbe, attached, mismatched, lastKill>>

\* killErr != nil: panic("kill -TERM failed")
KillError(c) == Halt("panicked")

\* the watcher delivers a CRD event of group g to the pipeline's handler:
\* syscall.Kill(Getpid(), SIGTERM) on a matching group, panic if it fails
CRDEvent(c) ==
    /\ Alive
    /\ watcher[c] = "running"
    /\ sent[c] < MaxEvents
    /\ \E g \in Groups, killOk \in BOOLEAN :
          IF HandlerKills(c, g)
            THEN IF killOk
                   THEN /\ sent' = [sent EXCEPT ![c] = @ + 1]
                        /\ sigPending' = Signal(sigPending)
                        /\ lastKill' = [lastKill EXCEPT ![c] = g]
                        /\ UNCHANGED <<shardKey, flaky, mainPc, proc, ctx, extSent, pc,
                                       retries, watcher, firstProbe, nProbes, nWatch,
                                       nAttach, lastAttach, attachErr, lastProbe,
                                       attached, mismatched, killFailed>>
                   ELSE /\ killFailed' = TRUE
                        /\ KillError(c)
            ELSE /\ mismatched' = [mismatched EXCEPT ![c] = TRUE]
                 /\ UNCHANGED <<shardKey, flaky, mainPc, proc, ctx, sigPending, extSent,
                                pc, retries, watcher, sent, firstProbe, nProbes, nWatch,
                                nAttach, lastAttach, attachErr, lastProbe, attached,
                                lastKill, killFailed>>

\* the watcher was given ctx: it stops some time after ctx is cancelled
WatcherStop(c) ==
    /\ Alive
    /\ watcher[c] = "running"
    /\ ctx = "cancelled"
    /\ watcher' = [watcher EXCEPT ![c] = "stopped"]
    /\ UNCHANGED <<shardKey, flaky, mainPc, proc, ctx, sigPending, extSent, pc, retries,
                   sent, firstProbe, nProbes, nWatch, nAttach, lastAttach, attachErr, lastProbe,
                   attached, mismatched, lastKill, killFailed>>

Next ==
    \/ GoCapiWatchers
    \/ GoFluxWatchers
    \/ MgrStart
    \/ MgrStartReturns
    \/ MgrStartFails
    \/ ExternalSignal
    \/ SignalHandler
    \/ \E c \in Caps : Probe(c)
    \/ \E c \in Caps : Sleep(c)
    \/ \E c \in Caps : Attach(c)
    \/ \E c \in Caps : CRDEvent(c)
    \/ \E c \in Caps : WatcherStop(c)

Spec == Init /\ [][Next]_vars

\* goroutines that can run are scheduled, a one-second sleep ends, a pending
\* signal reaches the signal handler
FairSpec ==
    /\ Spec
    /\ WF_vars(MainStep)
    /\ WF_vars(SignalHandler)
    /\ \A c \in Caps : WF_vars(PipelineStep(c))

(***************************************************************************)
(* Properties                                                              *)
(***************************************************************************)
Started(m) == m \in {"serving"}

\* the controllers a capability's event source is attached to
AttachTargets(c) ==
    IF c = "capi" /\ shardKey = "" THEN Controllers ELSE {"clusterSummary"}

\* a step of pipeline c that makes an attach call
AttachCalled(c) == pc[c] \in AttachPcs /\ pc'[c] \notin {pc[c], "gone"}

\* C1: once maxRetries (20) transient errors have been counted the retry loop
\* has given up: the pipeline is no longer in the loop, it has started the CRD
\* install watcher and returned.
C1_GivesUpAfterMaxRetries ==
    \A c \in Caps :
        retries[c] >= maxRetries => pc[c] = "returned" /\ watcher[c] # "none"

\* C2: with every goroutine scheduled fairly, each pipeline eventually leaves
\* the probing loop (attached or watching), whatever the probes and attach
\* calls return, unless the process has ended before.
C2_EveryPipelineResolves ==
    \A c \in Caps : <>(pc[c] = "returned" \/ ~Alive)

C4_AtMostOneSigtermPerPipeline ==
    \A c \in Caps : sent[c] <= 1

\* C5: over the whole process the handlers send at most one SIGTERM
C5_AtMostOneSigtermPerProcess ==
    sent["capi"] + sent["flux"] <= 1

C7_FirstAbsentWatchOnce ==
    \A c \in Caps :
        firstProbe[c] = "Absent" =>
            /\ pc[c] = "returned"
            /\ nWatch[c] = 1
            /\ watcher[c] # "none"
            /\ nProbes[c] = 1
            /\ \A k \in Controllers : nAttach[c][k] = 0

\* first probe Absent, the watcher runs and its handler has restarted the process
C7_Witness ==
    \E c \in Caps :
        firstProbe[c] = "Absent" /\ watcher[c] = "running" /\ sent[c] = 1

C9_CancelledPipelineExits ==
    [][\A c \in Caps :
          (ctx = "cancelled" /\ pc[c] = "sleep" /\ pc'[c] # "sleep") =>
              pc'[c] \in {"returned", "gone"}]_vars

\* C10: once ctx is cancelled no handler sends a SIGTERM
C10_NoRestartAfterCancel ==
    [][\A c \in Caps : ctx = "cancelled" => sent'[c] <= sent[c]]_vars


(***************************************************************************)
(* C11: the two pipelines are independent: under fairness of its own steps *)
(* each pipeline, once launched, reaches its end (event source attached or *)
(* CRD watcher started and the goroutine returned), whatever the other     *)
(* pipeline does.                                                          *)
(***************************************************************************)
C11_EachPipelineEndsOnItsOwn ==
    \A c \in Caps : (pc[c] = "probe") ~> (pc[c] = "returned" \/ ~Alive)

(***************************************************************************)
(* C12: manager startup never waits on a pipeline: under fairness of the   *)
(* main goroutine alone mgr.Start is reached in every execution in which   *)
(* the process is not ended first, also when a probe fails for ever.       *)
(***************************************************************************)
MainFairSpec == Spec /\ WF_vars(MainStep)

C12_MgrStartReached == <>(Started(mainPc) \/ ~Alive)

\* the manager is serving while a pipeline is past maxRetries failed probes
\* and still probing
C12_Witness ==
    /\ Alive
    /\ Started(mainPc)
    /\ \E c \in Caps : pc[c] = "probe" /\ retries[c] > maxRetries

\* the API group a pipeline's handler restarts on
HandlerGroup(c) == IF c = "capi" THEN capiGroup ELSE fluxGroup

(***************************************************************************)
(* C13: a CRD event of a group other than the handler's own never triggers *)
(* a restart: every SIGTERM capiCRDHandler sent was for an event of the    *)
(* cluster-lifecycle group, every SIGTERM fluxCRDHandler sent for one of   *)
(* the artifact-source group.                                              *)
(***************************************************************************)
C13_OnlyOwnGroupRestarts ==
    \A c \in Caps : lastKill[c] \in {"none", HandlerGroup(c)}

\* a handler has been given an event of a foreign group and no signal was sent
C13_Witness ==
    \E c \in Caps :
        /\ watcher[c] = "running"
        /\ mismatched[c]
        /\ \A d \in Caps : sent[d] = 0
        /\ sigPending = 0 /\ extSent = 0 /\ ctx = "active"

\* the result of the pipeline's most recent probe
LastResult(c) ==
    IF lastProbe[c].resp = "none" THEN "none" ELSE ProbeResult(lastProbe[c])

(***************************************************************************)
(* C14: a probe that returns Present after transient errors (in particular *)
(* after fewer than maxRetries of them) resolves the pipeline as Present:  *)
(* the attach calls are made, the CRD watcher is not started, and the      *)
(* earlier errors do not downgrade the result.                             *)
(***************************************************************************)
C14_PresentAfterErrorsAttaches ==
    \A c \in Caps :
        LastResult(c) = "Present" =>
            /\ watcher[c] = "none"
            /\ nWatch[c] = 0
            /\ pc[c] \in AttachPcs \/ lastAttach[c] # "none"

\* 19 failed probes, then Present: the first attach call has returned success
C14_Witness ==
    \E c \in Caps :
        /\ firstProbe[c] = "Error"
        /\ retries[c] = maxRetries - 1
        /\ LastResult(c) = "Present"
        /\ attachErr[c] = 0
        /\ attached[c] # {}
        /\ nWatch[c] = 0

\* every attach call the pipeline has to make has returned success
ConfirmedAttached(c) == attached[c] = AttachTargets(c)

(***************************************************************************)
(* C15: once every attach call of a pipeline has returned success the      *)
(* pipeline has ended for good: it has returned without a CRD watcher and  *)
(* without a restart signal of its own, and from then on it makes no       *)
(* further probe and no further attach call, whatever the API answers.     *)
(***************************************************************************)
C15_AttachedIsFinal ==
    [][\A c \in Caps :
          /\ ConfirmedAttached(c)' =>
                /\ pc'[c] = "returned"
                /\ watcher'[c] = "none"
                /\ nWatch'[c] = 0
                /\ sent'[c] = 0
          /\ (ConfirmedAttached(c) /\ Alive') =>
                /\ ConfirmedAttached(c)'
                /\ lastProbe'[c] = lastProbe[c]
                /\ nProbes'[c] = nProbes[c]
                /\ nAttach'[c] = nAttach[c]]_vars

\* the CAPI pipeline has attached on all three controllers and the process
\* has gone on running: the root context has been cancelled since
C15_Witness ==
    \E c \in Caps :
        /\ Alive
        /\ ConfirmedAttached(c)
        /\ AttachTargets(c) = Controllers
        /\ ctx = "cancelled"

(***************************************************************************)
(* C16: every probe that returns a transient error is followed by the      *)
(* one-second sleep before the pipeline probes again: no two probes        *)
(* separated only by a transient error run back to back.                   *)
(***************************************************************************)
C16_SleepBeforeEveryRetry ==
    [][\A c \in Caps :
          (Probe(c) /\ LastResult(c)' = "Error") => pc'[c] = "sleep"]_vars

(***************************************************************************)
(* C17: the prober classifies the API answer of its one read: success is   *)
(* (true, nil), NotFound is (false, nil), any other error is (false, err); *)
(* one invocation makes exactly one API call.                               *)
(***************************************************************************)
C17_ProberClassification ==
    \A c \in Caps :
        LET p == lastProbe[c] IN
        p.resp # "none" =>
            /\ p.calls = 1
            /\ p.resp = "ok" => (p.present /\ ~p.err)
            /\ p.resp = "notFound" => (~p.present /\ ~p.err)
            /\ p.resp \notin {"ok", "notFound"} => (~p.present /\ p.err)

\* the three answers have all been classified: an error first and then a
\* success in one pipeline, NotFound in the other
C17_Witness ==
    \E c, d \in Caps :
        /\ firstProbe[c] = "Error"
        /\ lastProbe[c].resp = "ok"
        /\ lastProbe[d].resp = "notFound"

(***************************************************************************)
(* C18: when the process cannot deliver SIGTERM to itself the handler      *)
(* panics: there is no state in which a kill has failed and the process    *)
(* has gone on running.                                                    *)
(***************************************************************************)
C18_KillFailurePanics == killFailed => proc = "panicked"

\* a kill has failed and the process has ended by panic
C18_Witness == killFailed /\ proc = "panicked" /\ mainPc = "exited"

(***************************************************************************)
(* C19: resolution comes before attach or watch: an attach call is due     *)
(* only when the probe of the same loop iteration returned Present without *)
(* error, and the CRD watcher has been started only by an iteration whose  *)
(* probe returned Absent without error; neither follows a failed probe.    *)
(***************************************************************************)
C19_ResolvedBeforeAttachOrWatch ==
    \A c \in Caps :
        /\ pc[c] \in AttachPcs => LastResult(c) = "Present"
        /\ (watcher[c] # "none" \/ nWatch[c] > 0) =>
               (LastResult(c) = "Absent" /\ pc[c] = "returned")

\* one pipeline is at an attach call after failed probes, the other has
\* started its watcher
C19_Witness ==
    \E c, d \in Caps :
        /\ pc[c] \in AttachPcs
        /\ firstProbe[c] = "Error"
        /\ watcher[d] = "running"

(***************************************************************************)
(* C20: the event source is registered at most once per controller: no     *)
(* attach call is made on a controller on which an attach call has already *)
(* returned success, and a pipeline that has attached on at least one      *)
(* controller never starts the CRD watcher.                                *)
(***************************************************************************)
C20_AttachOncePerController ==
    [][\A c \in Caps :
          /\ Attach(c) => Ctrl(pc[c]) \notin attached[c]
          /\ attached'[c] # {} => watcher'[c] = "none"]_vars

====
